---- MODULE Spec2Model ----
(***************************************************************************)
(* Model of python/auto_boat_guide_sys/utilities/Quaternions.py.           *)
(*                                                                         *)
(* The module is a library of pure functions over 4x1 / 3x1 column arrays  *)
(* of floats.  A real number is modelled exactly, as an element            *)
(* (a + b*sqrt(2)) / d of the field Q(sqrt 2), written <<a, b, d>> with    *)
(* d > 0 and gcd(a, b, d) = 1.  The float NaN is <<0, 0, 0>>.  Rounding is *)
(* not modelled.  A column array is the sequence of its entries, so the    *)
(* source's q[i, 0] is q[i+1] here.                                        *)
(***************************************************************************)
EXTENDS Integers, Sequences, FiniteSets, TLC

VARIABLES fn, args, ret, pc

vars == <<fn, args, ret, pc>>

----------------------------------------------------------------------------
(* Exact real arithmetic on Q(sqrt 2).                                     *)

Abs(n) == IF n < 0 THEN -n ELSE n

RECURSIVE Gcd(_, _)
Gcd(m, n) == IF n = 0 THEN m ELSE Gcd(n, m % n)

Reduce(a, b, d) ==
  LET g == Gcd(Gcd(Abs(a), Abs(b)), d)
  IN  <<a \div g, b \div g, d \div g>>

Rat(n, d) == Reduce(n, 0, d)
Num(n) == <<n, 0, 1>>
Zero == Num(0)
One == Num(1)
Two == Num(2)
NaN == <<0, 0, 0>>

IsNaN(x) == x[3] = 0

Neg(x) == <<-x[1], -x[2], x[3]>>

Add(x, y) ==
  IF IsNaN(x) \/ IsNaN(y) THEN NaN
  ELSE LET g == Gcd(x[3], y[3])
           kx == y[3] \div g
           ky == x[3] \div g
       IN  Reduce(x[1] * kx + y[1] * ky, x[2] * kx + y[2] * ky, x[3] * kx)

Sub(x, y) == Add(x, Neg(y))

Mul(x, y) ==
  IF IsNaN(x) \/ IsNaN(y) THEN NaN
  ELSE Reduce(x[1] * y[1] + 2 * x[2] * y[2],
              x[1] * y[2] + x[2] * y[1],
              x[3] * y[3])

\* -1, 0 or 1: the sign of a + b*sqrt(2) (the denominator is positive).
Sign(x) ==
  LET a == x[1]
      b == x[2]
  IN  IF a = 0 /\ b = 0 THEN 0
      ELSE IF a >= 0 /\ b >= 0 THEN 1
      ELSE IF a <= 0 /\ b <= 0 THEN -1
      ELSE IF a > 0 THEN (IF a * a > 2 * b * b THEN 1 ELSE -1)
      ELSE (IF 2 * b * b > a * a THEN 1 ELSE -1)

Less(x, y) == Sign(Sub(x, y)) < 0

Mul3(x, y, z) == Mul(Mul(x, y), z)

Dot(r, c) ==
  LET RECURSIVE Acc(_)
      Acc(i) == IF i = 0 THEN Zero ELSE Add(Acc(i - 1), Mul(r[i], c[i]))
  IN  Acc(Len(r))

\* np.matmul of a matrix (a sequence of rows) and a column.
MatMul(M, c) == [i \in 1..Len(M) |-> Dot(M[i], c)]

----------------------------------------------------------------------------
(* Angles.  An angle in radians is one of the named values below; the      *)
(* table gives, for each, the cosine and sine of its half (np.cos(a/2.0),  *)
(* np.sin(a/2.0)) and of the angle itself (inverted by np.arcsin and       *)
(* np.arctan2).  A = 2*atan(3/4) (about 73.74 degrees) and                 *)
(* B = 2*atan(5/12) (about 45.24 degrees).                                 *)

HalfRoot2 == <<0, 1, 2>>

AngleTable ==
  [ zero     |-> [hc |-> One,          hs |-> Zero,           c |-> One,           s |-> Zero],
    A        |-> [hc |-> Rat(4, 5),    hs |-> Rat(3, 5),      c |-> Rat(7, 25),    s |-> Rat(24, 25)],
    negA     |-> [hc |-> Rat(4, 5),    hs |-> Rat(-3, 5),     c |-> Rat(7, 25),    s |-> Rat(-24, 25)],
    B        |-> [hc |-> Rat(12, 13),  hs |-> Rat(5, 13),     c |-> Rat(119, 169), s |-> Rat(120, 169)],
    negB     |-> [hc |-> Rat(12, 13),  hs |-> Rat(-5, 13),    c |-> Rat(119, 169), s |-> Rat(-120, 169)],
    halfPi   |-> [hc |-> HalfRoot2,    hs |-> HalfRoot2,      c |-> Zero,          s |-> One],
    negHalfPi |-> [hc |-> HalfRoot2,   hs |-> Neg(HalfRoot2), c |-> Zero,          s |-> Neg(One)],
    pi       |-> [hc |-> Zero,         hs |-> One,            c |-> Neg(One),      s |-> Zero] ]

Angles == DOMAIN AngleTable

\* The angles strictly between -pi/2 and pi/2.
OpenQuarterAngles == {a \in Angles : Sign(AngleTable[a].c) > 0}

\* Angles used where results are of degree six in the half-angle values.
RotationAngles == {"zero", "A", "negA", "halfPi", "negHalfPi", "pi"}

\* Values of an angle that is not a table entry.
NaNAngle == "nan"
OffTable == "offTable"

CosHalf(a) == AngleTable[a].hc
SinHalf(a) == AngleTable[a].hs
Cos(a) == AngleTable[a].c
Sin(a) == AngleTable[a].s

\* np.arcsin: NaN outside [-1, 1] (a RuntimeWarning, no exception), else the
\* angle in [-pi/2, pi/2] with that sine.
Arcsin(x) ==
  IF IsNaN(x) \/ Less(One, x) \/ Less(x, Neg(One)) THEN NaNAngle
  ELSE LET hit == {a \in Angles : Sign(Cos(a)) >= 0 /\ Sin(a) = x}
       IN  IF hit = {} THEN OffTable ELSE CHOOSE a \in hit : TRUE

\* np.arctan2(y, x): the angle in (-pi, pi] of the point (x, y); 0 at (0, 0).
Arctan2(y, x) ==
  IF IsNaN(x) \/ IsNaN(y) THEN NaNAngle
  ELSE IF x = Zero /\ y = Zero THEN "zero"
  ELSE LET hit == {a \in Angles :
                     /\ Mul(Cos(a), y) = Mul(Sin(a), x)
                     /\ Sign(Add(Mul(Cos(a), x), Mul(Sin(a), y))) > 0}
       IN  IF hit = {} THEN OffTable ELSE CHOOSE a \in hit : TRUE

----------------------------------------------------------------------------
(* The functions of Quaternions.py.                                        *)

\* The second term of q0 subtracted instead of added.
setQuaternionEulerAngles_q0Sign(psi, theta, phi) ==
  LET cPsi2 == CosHalf(psi)
      cTheta2 == CosHalf(theta)
      cPhi2 == CosHalf(phi)
      sPsi2 == SinHalf(psi)
      sTheta2 == SinHalf(theta)
      sPhi2 == SinHalf(phi)
      q0 == Sub(Mul3(cPsi2, cTheta2, cPhi2), Mul3(sPsi2, sTheta2, sPhi2))
      q1 == Sub(Mul3(cPsi2, cTheta2, sPhi2), Mul3(sPsi2, sTheta2, cPhi2))
      q2 == Add(Mul3(cPsi2, sTheta2, cPhi2), Mul3(sPsi2, cTheta2, sPhi2))
      q3 == Sub(Mul3(sPsi2, cTheta2, cPhi2), Mul3(cPsi2, sTheta2, sPhi2))
  IN  <<q0, q1, q2, q3>>

setQuaternionEulerAngles(psi, theta, phi) ==
  LET cPsi2 == CosHalf(psi)
      cTheta2 == CosHalf(theta)
      cPhi2 == CosHalf(phi)
      sPsi2 == SinHalf(psi)
      sTheta2 == SinHalf(theta)
      sPhi2 == SinHalf(phi)
      q0 == Add(Mul3(cPsi2, cTheta2, cPhi2), Mul3(sPsi2, sTheta2, sPhi2))
      q1 == Sub(Mul3(cPsi2, cTheta2, sPhi2), Mul3(sPsi2, sTheta2, cPhi2))
      q2 == Add(Mul3(cPsi2, sTheta2, cPhi2), Mul3(sPsi2, cTheta2, sPhi2))
      q3 == Sub(Mul3(sPsi2, cTheta2, cPhi2), Mul3(cPsi2, sTheta2, sPhi2))
  IN  <<q0, q1, q2, q3>>

\* The vector part left as it is.
getQuaternionComplexConjugate_noNegation(q) ==
  <<q[1], q[2], q[3], q[4]>>

getQuaternionComplexConjugate(q) ==
  <<q[1], Neg(q[2]), Neg(q[3]), Neg(q[4])>>

\* The matrix of p as the left factor: a row-two-to-four sign slip.
multiplyQuaternions_leftFactor(q, p) ==
  LET p0 == p[1]
      p1 == p[2]
      p2 == p[3]
      p3 == p[4]
      pMat == << <<p0, Neg(p1), Neg(p2), Neg(p3)>>,
                 <<p1, p0, Neg(p3), p2>>,
                 <<p2, p3, p0, Neg(p1)>>,
                 <<p3, Neg(p2), p1, p0>> >>
  IN  MatMul(pMat, q)

\* A sign slip in the first row of the matrix.
multiplyQuaternions_firstRowSign(q, p) ==
  LET p0 == p[1]
      p1 == p[2]
      p2 == p[3]
      p3 == p[4]
      pMat == << <<p0, Neg(p1), Neg(p2), p3>>,
                 <<p1, p0, p3, Neg(p2)>>,
                 <<p2, Neg(p3), p0, p1>>,
                 <<p3, p2, Neg(p1), p0>> >>
  IN  MatMul(pMat, q)

multiplyQuaternions(q, p) ==
  LET p0 == p[1]
      p1 == p[2]
      p2 == p[3]
      p3 == p[4]
      pMat == << <<p0, Neg(p1), Neg(p2), Neg(p3)>>,
                 <<p1, p0, p3, Neg(p2)>>,
                 <<p2, Neg(p3), p0, p1>>,
                 <<p3, p2, Neg(p1), p0>> >>
  IN  MatMul(pMat, q)

\* vNew of rotateVectorWithQuaternion, before the slice [1:4].
rotateSandwich(v, psi, theta, phi) ==
  LET q == setQuaternionEulerAngles(psi, theta, phi)
      vPure == <<Zero>> \o v
      qConj == getQuaternionComplexConjugate(q)
      p == multiplyQuaternions(qConj, vPure)
  IN  multiplyQuaternions(p, q)

\* The slice taken one place early, [0:3].
rotateVectorWithQuaternion_sliceFromZero(v, psi, theta, phi) ==
  SubSeq(rotateSandwich(v, psi, theta, phi), 1, 3)

rotateVectorWithQuaternion(v, psi, theta, phi) ==
  SubSeq(rotateSandwich(v, psi, theta, phi), 2, 4)

\* The argument of np.arcsin in quaternionToEulerAngles.
ArcsinArg(q) ==
  Neg(Sub(Mul3(Two, q[2], q[4]), Mul3(Two, q[1], q[3])))

\* The (y, x) arguments of the two np.arctan2 calls.
PhiArgs(q) ==
  << Add(Mul3(Two, q[3], q[4]), Mul3(Two, q[1], q[2])),
     Sub(Add(Mul3(Two, q[1], q[1]), Mul3(Two, q[4], q[4])), One) >>

PsiArgs(q) ==
  << Add(Mul3(Two, q[2], q[3]), Mul3(Two, q[1], q[4])),
     Add(Sub(Mul3(Two, q[1], q[1]), One), Mul3(Two, q[2], q[2])) >>

\* The angles returned in the order of the inputs of setQuaternionEulerAngles.
quaternionToEulerAngles_inputOrder(q) ==
  LET phi == Arctan2(PhiArgs(q)[1], PhiArgs(q)[2])
      theta == Arcsin(ArcsinArg(q))
      psi == Arctan2(PsiArgs(q)[1], PsiArgs(q)[2])
  IN  <<psi, theta, phi>>

quaternionToEulerAngles(q) ==
  LET phi == Arctan2(PhiArgs(q)[1], PhiArgs(q)[2])
      theta == Arcsin(ArcsinArg(q))
      psi == Arctan2(PsiArgs(q)[1], PsiArgs(q)[2])
  IN  <<phi, theta, psi>>

\* 2*q[i]*q[i] - 1 + 2*q[j]*q[j], the diagonal entries of the DCM.
DcmDiag(q, i, j) ==
  Add(Sub(Mul3(Two, q[i], q[i]), One), Mul3(Two, q[j], q[j]))

\* The transposed matrix: the signs of the q0 terms exchanged.
quaternionToDCM_transposed(q) ==
  LET q0 == q[1]
      q1 == q[2]
      q2 == q[3]
      q3 == q[4]
  IN  << << DcmDiag(q, 1, 2),
            Sub(Mul3(Two, q1, q2), Mul3(Two, q0, q3)),
            Add(Mul3(Two, q1, q3), Mul3(Two, q0, q2)) >>,
         << Add(Mul3(Two, q1, q2), Mul3(Two, q0, q3)),
            DcmDiag(q, 1, 3),
            Sub(Mul3(Two, q2, q3), Mul3(Two, q0, q1)) >>,
         << Sub(Mul3(Two, q1, q3), Mul3(Two, q0, q2)),
            Add(Mul3(Two, q2, q3), Mul3(Two, q0, q1)),
            DcmDiag(q, 1, 4) >> >>

\* A sign slip in R[0][2].
quaternionToDCM_signSlip(q) ==
  LET q0 == q[1]
      q1 == q[2]
      q2 == q[3]
      q3 == q[4]
  IN  << << DcmDiag(q, 1, 2),
            Add(Mul3(Two, q1, q2), Mul3(Two, q0, q3)),
            Add(Mul3(Two, q1, q3), Mul3(Two, q0, q2)) >>,
         << Sub(Mul3(Two, q1, q2), Mul3(Two, q0, q3)),
            DcmDiag(q, 1, 3),
            Add(Mul3(Two, q2, q3), Mul3(Two, q0, q1)) >>,
         << Add(Mul3(Two, q1, q3), Mul3(Two, q0, q2)),
            Sub(Mul3(Two, q2, q3), Mul3(Two, q0, q1)),
            DcmDiag(q, 1, 4) >> >>

quaternionToDCM(q) ==
  LET q0 == q[1]
      q1 == q[2]
      q2 == q[3]
      q3 == q[4]
  IN  << << DcmDiag(q, 1, 2),
            Add(Mul3(Two, q1, q2), Mul3(Two, q0, q3)),
            Sub(Mul3(Two, q1, q3), Mul3(Two, q0, q2)) >>,
         << Sub(Mul3(Two, q1, q2), Mul3(Two, q0, q3)),
            DcmDiag(q, 1, 3),
            Add(Mul3(Two, q2, q3), Mul3(Two, q0, q1)) >>,
         << Add(Mul3(Two, q1, q3), Mul3(Two, q0, q2)),
            Sub(Mul3(Two, q2, q3), Mul3(Two, q0, q1)),
            DcmDiag(q, 1, 4) >> >>

----------------------------------------------------------------------------
(* Calls.  The library holds no state: a behaviour is one call, from the   *)
(* caller's choice of function and arguments (Init) to its return.         *)

MaxQuatNormSq == 2
MaxVecNormSq == 3

\* Components a vector of the bounded squared norm can have.
QuatRange == {n \in -MaxQuatNormSq..MaxQuatNormSq : n * n <= MaxQuatNormSq}
VecRange == {n \in -MaxVecNormSq..MaxVecNormSq : n * n <= MaxVecNormSq}

\* Quaternions with integer components, of squared norm at most MaxQuatNormSq.
IntQuats ==
  {<<Num(t[1]), Num(t[2]), Num(t[3]), Num(t[4])>> :
     t \in {u \in QuatRange \X QuatRange \X QuatRange \X QuatRange :
              u[1] * u[1] + u[2] * u[2] + u[3] * u[3] + u[4] * u[4] <= MaxQuatNormSq}}

\* The sixteen unit quaternions with components +-1/2.
HalfUnits ==
  {<<Rat(a, 2), Rat(b, 2), Rat(c, 2), Rat(d, 2)>> : a, b, c, d \in {-1, 1}}

\* Quaternions built from Euler angles.
EulerQuats ==
  {setQuaternionEulerAngles(psi, theta, phi) : psi, theta, phi \in Angles}

\* Those built with at most one angle that is not a multiple of pi/2.
QuarterTurns == {"zero", "halfPi", "negHalfPi", "pi"}
SimpleEulerQuats ==
  {setQuaternionEulerAngles(t[1], t[2], t[3]) :
     t \in {u \in Angles \X Angles \X Angles :
              Cardinality({i \in 1..3 : u[i] \notin QuarterTurns}) <= 1}}

Quats == IntQuats \cup HalfUnits \cup EulerQuats

\* Vectors with integer components, of squared length at most MaxVecNormSq.
Vectors ==
  {<<Num(t[1]), Num(t[2]), Num(t[3])>> :
     t \in {u \in VecRange \X VecRange \X VecRange :
              u[1] * u[1] + u[2] * u[2] + u[3] * u[3] <= MaxVecNormSq}}

\* A keyword argument the caller leaves out, and the default it then takes.
Omitted == "omitted"
DefaultAngle == "zero"
\* A default of pi in place of 0.0.
Bind_defaultPi(a) == IF a = Omitted THEN "pi" ELSE a

Bind(a) == IF a = Omitted THEN DefaultAngle ELSE a

None == <<>>

Init ==
  /\ pc = "called"
  /\ ret = None
  /\ \/ /\ fn = "setQuaternionEulerAngles"
        /\ args \in Angles \X Angles \X Angles
     \/ /\ fn = "getQuaternionComplexConjugate"
        /\ args \in {<<q>> : q \in Quats}
     \/ /\ fn = "multiplyQuaternions"
        /\ args \in (IntQuats \cup HalfUnits) \X (IntQuats \cup HalfUnits)
     \/ /\ fn = "rotateVectorWithQuaternion"
        /\ args \in Vectors \X (RotationAngles \cup {Omitted})
                            \X (RotationAngles \cup {Omitted})
                            \X (RotationAngles \cup {Omitted})
     \/ /\ fn = "quaternionToEulerAngles"
        /\ args \in {<<q>> : q \in Quats}
     \/ /\ fn = "quaternionToDCM"
        /\ args \in {<<q>> : q \in IntQuats \cup HalfUnits \cup SimpleEulerQuats}

Return(value) ==
  /\ ret' = value
  /\ pc' = "returned"
  /\ UNCHANGED <<fn, args>>

CallSetQuaternionEulerAngles ==
  /\ pc = "called"
  /\ fn = "setQuaternionEulerAngles"
  /\ Return(setQuaternionEulerAngles(args[1], args[2], args[3]))

CallGetQuaternionComplexConjugate ==
  /\ pc = "called"
  /\ fn = "getQuaternionComplexConjugate"
  /\ Return(getQuaternionComplexConjugate(args[1]))

CallMultiplyQuaternions ==
  /\ pc = "called"
  /\ fn = "multiplyQuaternions"
  /\ Return(multiplyQuaternions(args[1], args[2]))

CallRotateVectorWithQuaternion ==
  /\ pc = "called"
  /\ fn = "rotateVectorWithQuaternion"
  /\ Return(rotateVectorWithQuaternion(args[1], Bind(args[2]), Bind(args[3]),
                                       Bind(args[4])))

CallQuaternionToEulerAngles ==
  /\ pc = "called"
  /\ fn = "quaternionToEulerAngles"
  /\ Return(quaternionToEulerAngles(args[1]))

CallQuaternionToDCM ==
  /\ pc = "called"
  /\ fn = "quaternionToDCM"
  /\ Return(quaternionToDCM(args[1]))

Next ==
  \/ CallSetQuaternionEulerAngles
  \/ CallGetQuaternionComplexConjugate
  \/ CallMultiplyQuaternions
  \/ CallRotateVectorWithQuaternion
  \/ CallQuaternionToEulerAngles
  \/ CallQuaternionToDCM

Spec == Init /\ [][Next]_vars

----------------------------------------------------------------------------
(* Properties.                                                             *)

Returned(f) == pc = "returned" /\ fn = f

NormSq(x) == Dot(x, x)

\* The Hamilton product a*b, a the left factor, from the rules
\* i*i = j*j = k*k = -1, i*j = k, j*k = i, k*i = j.
HamiltonProduct(a, b) ==
  << Sub(Sub(Sub(Mul(a[1], b[1]), Mul(a[2], b[2])), Mul(a[3], b[3])), Mul(a[4], b[4])),
     Sub(Add(Add(Mul(a[1], b[2]), Mul(a[2], b[1])), Mul(a[3], b[4])), Mul(a[4], b[3])),
     Add(Add(Sub(Mul(a[1], b[3]), Mul(a[2], b[4])), Mul(a[3], b[1])), Mul(a[4], b[2])),
     Add(Sub(Add(Mul(a[1], b[4]), Mul(a[2], b[3])), Mul(a[3], b[2])), Mul(a[4], b[1])) >>

\* C1, as claimed: multiplyQuaternions(q, p) is the Hamilton product p*q, with p
\* the left factor and q the right factor.
C1_ProductWithPLeft ==
  Returned("multiplyQuaternions") => ret = HamiltonProduct(args[2], args[1])

\* C1, amended: multiplyQuaternions(q, p) is the Hamilton product q*p, with q
\* the left factor and p the right factor.
C1_ProductWithQLeft ==
  Returned("multiplyQuaternions") => ret = HamiltonProduct(args[1], args[2])

C1_Witness ==
  /\ Returned("multiplyQuaternions")
  /\ HamiltonProduct(args[1], args[2]) # HamiltonProduct(args[2], args[1])
  /\ ret = HamiltonProduct(args[1], args[2])

\* C7: the squared norm of multiplyQuaternions(q, p) is the product of the
\* squared norms of q and p, so two unit quaternions give a unit quaternion.
C7_NormMultiplicative ==
  Returned("multiplyQuaternions") =>
    /\ NormSq(ret) = Mul(NormSq(args[1]), NormSq(args[2]))
    /\ (NormSq(args[1]) = One /\ NormSq(args[2]) = One) => NormSq(ret) = One

C7_Witness ==
  /\ Returned("multiplyQuaternions")
  /\ args[1] \in HalfUnits
  /\ args[2] \in HalfUnits
  /\ args[1] # args[2]
  /\ NormSq(ret) = One

\* The angles a call of rotateVectorWithQuaternion runs with.
RotPsi == Bind(args[2])
RotTheta == Bind(args[3])
RotPhi == Bind(args[4])

\* C3: the squared length of rotateVectorWithQuaternion(v, psi, theta, phi) is
\* the squared length of v.
C3_RotationKeepsLength ==
  Returned("rotateVectorWithQuaternion") => NormSq(ret) = NormSq(args[1])

C3_Witness ==
  /\ Returned("rotateVectorWithQuaternion")
  /\ {args[2], args[3], args[4]} = {"A", "negA", "halfPi"}
  /\ \A i \in 1..3 : args[1][i] # Zero
  /\ ret # args[1]
  /\ NormSq(ret) = NormSq(args[1])

UnitY == <<Zero, One, Zero>>
UnitZ == <<Zero, Zero, One>>
RollQuarterQuat == <<HalfRoot2, HalfRoot2, Zero, Zero>>

\* C4, as claimed: setQuaternionEulerAngles(0, 0, pi/2) is
\* (sqrt(2)/2, sqrt(2)/2, 0, 0), and rotateVectorWithQuaternion((0,1,0), 0, 0, pi/2)
\* is (0, 0, 1).
C4_RollTakesYToPlusZ ==
  /\ (Returned("setQuaternionEulerAngles") /\ args = <<"zero", "zero", "halfPi">>)
       => ret = RollQuarterQuat
  /\ (Returned("rotateVectorWithQuaternion") /\ args = <<UnitY, "zero", "zero", "halfPi">>)
       => ret = UnitZ

\* C4, amended: setQuaternionEulerAngles(0, 0, pi/2) is
\* (sqrt(2)/2, sqrt(2)/2, 0, 0), and rotateVectorWithQuaternion((0,1,0), 0, 0, pi/2)
\* is (0, 0, -1): the coordinates of the y-axis unit vector in the frame rolled by
\* +90 degrees about x.
C4_RollTakesYToMinusZ ==
  /\ (Returned("setQuaternionEulerAngles") /\ args = <<"zero", "zero", "halfPi">>)
       => ret = RollQuarterQuat
  /\ (Returned("rotateVectorWithQuaternion") /\ args = <<UnitY, "zero", "zero", "halfPi">>)
       => ret = <<Zero, Zero, Neg(One)>>

C4_Witness ==
  /\ Returned("rotateVectorWithQuaternion")
  /\ args = <<UnitY, "zero", "zero", "halfPi">>
  /\ ret = <<Zero, Zero, Neg(One)>>

\* C9: rotateVectorWithQuaternion(v, 0, 0, 0), and the call with the angles left
\* out, returns v; setQuaternionEulerAngles(0, 0, 0) is (1, 0, 0, 0).
C9_ZeroRotationIsIdentity ==
  /\ (Returned("rotateVectorWithQuaternion")
        /\ \A i \in 2..4 : args[i] \in {"zero", Omitted})
       => ret = args[1]
  /\ (Returned("setQuaternionEulerAngles") /\ args = <<"zero", "zero", "zero">>)
       => ret = <<One, Zero, Zero, Zero>>

C9_Witness ==
  /\ Returned("rotateVectorWithQuaternion")
  /\ args[2] = Omitted /\ args[3] = Omitted /\ args[4] = Omitted
  /\ \A i \in 1..3 : args[1][i] # Zero
  /\ ret = args[1]

\* C10: quaternionToDCM(setQuaternionEulerAngles(psi, theta, phi)) times v is
\* rotateVectorWithQuaternion(v, psi, theta, phi), and the scalar part of the
\* product conj(q) * vPure * q is 0.
C10_DcmIsTheRotation ==
  Returned("rotateVectorWithQuaternion") =>
    LET q == setQuaternionEulerAngles(RotPsi, RotTheta, RotPhi)
        vPure == <<Zero>> \o args[1]
        sandwich == multiplyQuaternions(
                      multiplyQuaternions(getQuaternionComplexConjugate(q), vPure), q)
    IN  /\ MatMul(quaternionToDCM(q), args[1]) = ret
        /\ SubSeq(sandwich, 2, 4) = ret
        /\ sandwich[1] = Zero

C10_Witness ==
  /\ Returned("rotateVectorWithQuaternion")
  /\ args[2] = "A" /\ args[3] = "halfPi" /\ args[4] = "negA"
  /\ \A i \in 1..3 : args[1][i] # Zero
  /\ ret # args[1]
  /\ MatMul(quaternionToDCM(setQuaternionEulerAngles("A", "halfPi", "negA")), args[1]) = ret

\* C2, as claimed: when the argument of the arcsine is outside [-1, 1], the call
\* of quaternionToEulerAngles raises an error; it returns no triple, and so none
\* whose theta is NaN.
C2_OutOfDomainRaises ==
  (/\ fn = "quaternionToEulerAngles"
   /\ pc # "called"
   /\ \/ Less(One, ArcsinArg(args[1]))
      \/ Less(ArcsinArg(args[1]), Neg(One)))
    => pc = "raised"

\* C5: for psi, theta, phi strictly between -pi/2 and pi/2,
\* quaternionToEulerAngles(setQuaternionEulerAngles(psi, theta, phi)) is
\* (phi, theta, psi); the arctan2 arguments are (sin(phi)cos(theta),
\* cos(phi)cos(theta)) and (sin(psi)cos(theta), cos(psi)cos(theta)), and the
\* arcsine argument is sin(theta).
C5_RoundTrip ==
  Returned("quaternionToEulerAngles") =>
    \A psi, theta, phi \in OpenQuarterAngles :
      args[1] = setQuaternionEulerAngles(psi, theta, phi) =>
        /\ ret = <<phi, theta, psi>>
        /\ PhiArgs(args[1]) = <<Mul(Sin(phi), Cos(theta)), Mul(Cos(phi), Cos(theta))>>
        /\ PsiArgs(args[1]) = <<Mul(Sin(psi), Cos(theta)), Mul(Cos(psi), Cos(theta))>>
        /\ ArcsinArg(args[1]) = Sin(theta)

C5_Witness ==
  /\ Returned("quaternionToEulerAngles")
  /\ args[1] = setQuaternionEulerAngles("A", "negB", "B")
  /\ ret = <<"B", "negB", "A">>

Transpose(M) == [i \in 1..3 |-> [j \in 1..3 |-> M[j][i]]]

MatMat(M, N) == [i \in 1..3 |-> [j \in 1..3 |-> Dot(M[i], Transpose(N)[j])]]

Identity3 == << <<One, Zero, Zero>>, <<Zero, One, Zero>>, <<Zero, Zero, One>> >>

Det3(M) ==
  Add(Sub(Mul(M[1][1], Sub(Mul(M[2][2], M[3][3]), Mul(M[2][3], M[3][2]))),
          Mul(M[1][2], Sub(Mul(M[2][1], M[3][3]), Mul(M[2][3], M[3][1])))),
      Mul(M[1][3], Sub(Mul(M[2][1], M[3][2]), Mul(M[2][2], M[3][1]))))

\* C6: for a unit quaternion q, R = quaternionToDCM(q) has R * transpose(R) the
\* identity and determinant 1.
C6_DcmOrthonormal ==
  (Returned("quaternionToDCM") /\ NormSq(args[1]) = One) =>
    /\ MatMat(ret, Transpose(ret)) = Identity3
    /\ Det3(ret) = One

C6_Witness ==
  /\ Returned("quaternionToDCM")
  /\ args[1] \in HalfUnits
  /\ ret # Identity3
  /\ MatMat(ret, Transpose(ret)) = Identity3

\* C8: the quaternion of setQuaternionEulerAngles(psi, theta, phi) has squared
\* norm 1, the product over the three angles of cos^2 + sin^2 of the half angle.
C8_EulerQuaternionIsUnit ==
  Returned("setQuaternionEulerAngles") =>
    /\ NormSq(ret) = One
    /\ NormSq(ret) =
         Mul3(NormSq(<<CosHalf(args[1]), SinHalf(args[1])>>),
              NormSq(<<CosHalf(args[2]), SinHalf(args[2])>>),
              NormSq(<<CosHalf(args[3]), SinHalf(args[3])>>))

C8_Witness ==
  /\ Returned("setQuaternionEulerAngles")
  /\ args = <<"A", "negB", "halfPi">>
  /\ \A i \in 1..4 : ret[i] # Zero
  /\ NormSq(ret) = One

====
